---- MODULE Spec2Model ----
(***************************************************************************)
(* Model of scripts/seed/build_seed_list.py: the ranking and list-fusion   *)
(* pipeline of main().  Titles are sequences of tokens (a token is one     *)
(* character, or a namespace word such as "File"); a Python dict is a      *)
(* sequence of records in insertion order; None and the empty string are   *)
(* both the empty sequence (the code only ever tests them for truth).      *)
(* A float score is the exact rational <<numerator, denominator>>.         *)
(***************************************************************************)
EXTENDS Integers, Sequences, FiniteSets, TLC

VARIABLES
    \* ---- inputs, fixed at construction ----
    candidates,     \* list(candidate_views.keys()), line 521
    wdqs_films,     \* the film articles the WDQS endpoint knows
    list_pages,     \* per GOAT list: what opensearch / parse return
    pv_source,      \* per article: the pageviews call's outcome
    us_weight_file, \* args.us_weight_file: <<>> or <<rows>>
    goat_limit,     \* args.goat_limit
    seed_limit,     \* args.seed_limit
    max_workers,    \* args.max_workers
    \* ---- program state ----
    pc,             \* position in main()
    films,          \* filter_films: the local dict `films`
    batch_start,    \* filter_films: the loop index i
    film_items,     \* main: film_items
    film_by_key,    \* main: film_by_key
    goat_scores,    \* build_goat_scores: scores
    list_idx,       \* build_goat_scores: index into GOAT_LIST_QUERIES
    ranked,         \* build_goat_scores: ranked
    entry_idx,      \* build_goat_scores: position in ranked
    goat_items,     \* main: goat_items
    goat_selected,  \* main: goat_selected
    queue,          \* executor: submitted, not yet started
    running,        \* executor: entries being fetched by a worker
    finished,       \* executor: completed futures not yet collected
    submitted,      \* number of entries of film_by_key submitted so far
    pv_totals,      \* main: pv_totals
    likely_selected,\* main: likely_selected
    seed_items,     \* main: seed_items
    \* ---- history (not read by the program) ----
    offered,        \* every FilmItem offered to film_by_key, in order
    entries_seen,   \* every (list, rank, title) accumulated, in order
    pv_writes       \* every write into pv_totals, in order

inputs == <<candidates, wdqs_films, list_pages, pv_source, us_weight_file,
            goat_limit, seed_limit, max_workers>>
filter_vars == <<films, batch_start>>
goat_vars == <<goat_scores, list_idx, ranked, entry_idx>>
pool_vars == <<queue, running, finished, submitted, pv_totals>>
hist == <<offered, entries_seen, pv_writes>>
vars == <<inputs, pc, filter_vars, film_items, film_by_key, goat_vars,
          goat_items, goat_selected, pool_vars, likely_selected, seed_items,
          hist>>

----------------------------------------------------------------------------
(* Generic helpers *)

Min(S) == CHOOSE x \in S : \A y \in S : x <= y
Max(S) == CHOOSE x \in S : \A y \in S : x >= y
Range(s) == {s[i] : i \in 1..Len(s)}
Prefix(s, n) == SubSeq(s, 1, n)

\* Python's s[:n] for any integer n.
PySliceTo(s, n) ==
    IF n >= 0 THEN Prefix(s, IF n < Len(s) THEN n ELSE Len(s))
    ELSE Prefix(s, IF Len(s) + n > 0 THEN Len(s) + n ELSE 0)

\* list.sort / sorted: stable.  before is the set of index pairs <<i, j>> with
\* key(s[i]) < key(s[j]).  The element at index i lands after every element whose
\* key is smaller and after every earlier element whose key is equal.
StableSort(s, before) ==
    LET pos(i) == 1 + Cardinality({j \in 1..Len(s) :
                        \/ <<j, i>> \in before
                        \/ (j < i /\ <<i, j>> \notin before)})
    IN [p \in 1..Len(s) |-> s[CHOOSE i \in 1..Len(s) : pos(i) = p]]

IndexPairs(s) == (1..Len(s)) \X (1..Len(s))

----------------------------------------------------------------------------
(* Titles and identities *)

IsSpace(c) == c \in {" ", "\t"}

LowerTok(c) ==
    CASE c = "A" -> "a"
      [] c = "B" -> "b"
      [] c = "C" -> "c"
      [] c = "File" -> "file"
      [] OTHER -> c

RECURSIVE lstrip(_)
lstrip(s) == IF s # <<>> /\ IsSpace(Head(s)) THEN lstrip(Tail(s)) ELSE s

RECURSIVE rstrip(_)
rstrip(s) ==
    IF s # <<>> /\ IsSpace(s[Len(s)]) THEN rstrip(Prefix(s, Len(s) - 1)) ELSE s

strip(s) == rstrip(lstrip(s))

lower(s) == [i \in 1..Len(s) |-> LowerTok(s[i])]

\* re.sub(r"\s+", " ", s)
RECURSIVE collapse(_)
collapse(s) ==
    IF s = <<>> THEN <<>>
    ELSE IF IsSpace(Head(s)) THEN <<" ">> \o collapse(lstrip(s))
    ELSE <<Head(s)>> \o collapse(Tail(s))

normalize_key(title) == collapse(lower(strip(title)))

\* urllib.parse.quote with safe="/": letters, "_" and "/" pass, the rest is escaped.
quote(s) == [i \in 1..Len(s) |-> IF s[i] = "\t" THEN "%09" ELSE s[i]]
unquote(s) == [i \in 1..Len(s) |-> IF s[i] = "%09" THEN "\t" ELSE s[i]]

\* The path after https://en.wikipedia.org/wiki/
title_to_url(title) ==
    quote([i \in 1..Len(title) |-> IF title[i] = " " THEN "_" ELSE title[i]])

url_to_title(url) ==
    LET slashes == {i \in 1..Len(url) : url[i] = "/"}
        last == IF slashes = {} THEN url
                ELSE SubSeq(url, Max(slashes) + 1, Len(url))
        t == unquote(last)
    IN [i \in 1..Len(t) |-> IF t[i] = "_" THEN " " ELSE t[i]]

EXCLUDED_NAMESPACE_PREFIXES ==
    {<<"File">>, <<"Category">>, <<"Wikipedia">>, <<"Template">>, <<"Portal">>,
     <<"Help">>, <<"Special">>, <<"Talk">>, <<"User">>, <<"Draft">>,
     <<"Module">>, <<"Book">>}

----------------------------------------------------------------------------
(* Markup rank extraction.  A document is the sequence of its <ol> and     *)
(* <table> elements in document order.  A node (an <li> or a <tr>) holds   *)
(* its first <i> (italic: <<>> or <<[link, text]>>) and all its <a>        *)
(* elements in document order.  A link's href is a token sequence whose    *)
(* first token is "/wiki/" for an article link.                            *)

MIN_LIST_ITEMS == 50

\* the loop over node.find_all("a"), lines 422-434
RECURSIVE first_valid_link(_)
first_valid_link(links) ==
    IF links = <<>> THEN <<>>
    ELSE LET link == Head(links)
             title == IF link.title # <<>> THEN link.title ELSE link.text
             colons == {i \in 1..Len(title) : title[i] = ":"}
         IN IF link.href = <<>> \/ link.href[1] # "/wiki/"
               THEN first_valid_link(Tail(links))
            ELSE IF title = <<>> THEN first_valid_link(Tail(links))
            ELSE IF colons # {}
                    /\ Prefix(title, Min(colons) - 1) \in EXCLUDED_NAMESPACE_PREFIXES
               THEN first_valid_link(Tail(links))
            ELSE title

extract_title_from_node(node) ==
    IF node.italic # <<>>
       /\ node.italic[1].link # <<>>
       /\ node.italic[1].link[1].href # <<>>
       /\ node.italic[1].link[1].href[1] = "/wiki/"
    THEN node.italic[1].link[1].text
    ELSE IF node.italic # <<>> /\ node.italic[1].text # <<>>
    THEN node.italic[1].text
    ELSE first_valid_link(node.links)

\* re.search(r"\b(\d{1,3})\b", text): a cell text is a sequence of words,
\* a word [digits |-> number of digits (0: not a number), value |-> its value].
\* None is -1.
RECURSIVE extract_rank(_)
extract_rank(text) ==
    IF text = <<>> THEN -1
    ELSE IF Head(text).digits >= 1 /\ Head(text).digits <= 3 THEN Head(text).value
    ELSE extract_rank(Tail(text))

\* lines 375-379
ol_results(lis) ==
    LET Titled(p) == p[2] # <<>>
    IN SelectSeq([i \in 1..Len(lis) |-> <<i, extract_title_from_node(lis[i])>>],
                 Titled)

\* lines 386-396
RECURSIVE table_results(_)
table_results(rows) ==
    IF rows = <<>> THEN <<>>
    ELSE LET row == Head(rows)
             rank == IF row.cells = <<>> THEN -1 ELSE extract_rank(row.cells[1])
             title == extract_title_from_node(row.node)
         IN (IF row.cells # <<>> /\ rank # -1 /\ title # <<>>
             THEN << <<rank, title>> >> ELSE <<>>)
            \o table_results(Tail(rows))

\* soup.select("table.wikitable, table.sortable, table"): the elements matching
\* any selector of the list, each once, in document order.
select_tables(html) ==
    LET Matches(e) ==
            \/ e.tag = "table" /\ "wikitable" \in e.class
            \/ e.tag = "table" /\ "sortable" \in e.class
            \/ e.tag = "table"
    IN SelectSeq(html, Matches)

\* the first element of a sequence of result lists that is not empty, else <<>>
RECURSIVE first_nonempty(_)
first_nonempty(rs) ==
    IF rs = <<>> THEN <<>>
    ELSE IF Head(rs) # <<>> THEN Head(rs)
    ELSE first_nonempty(Tail(rs))

ordered_list_strategy(html) ==
    LET IsOl(e) == e.tag = "ol"
        ols == SelectSeq(html, IsOl)
    IN first_nonempty([i \in 1..Len(ols) |->
           IF Len(ols[i].lis) < MIN_LIST_ITEMS THEN <<>>
           ELSE ol_results(ols[i].lis)])

table_strategy(html) ==
    LET tables == select_tables(html)
    IN first_nonempty([i \in 1..Len(tables) |-> table_results(tables[i].rows)])

\* both strategies run and their results are combined
extract_ranked_combining(html) == ordered_list_strategy(html) \o table_strategy(html)

extract_ranked_from_html(html) ==
    IF ordered_list_strategy(html) # <<>> THEN ordered_list_strategy(html)
    ELSE table_strategy(html)

----------------------------------------------------------------------------
(* Python dicts: a sequence of [key, val] records in insertion order *)

dict_keys(d) == [i \in 1..Len(d) |-> d[i].key]
dict_values(d) == [i \in 1..Len(d) |-> d[i].val]
dict_has(d, k) == \E i \in 1..Len(d) : d[i].key = k
dict_get(d, k) == d[CHOOSE i \in 1..Len(d) : d[i].key = k].val

\* d[k] = v
dict_set(d, k, v) ==
    IF dict_has(d, k)
    THEN [i \in 1..Len(d) |-> IF d[i].key = k THEN [key |-> k, val |-> v] ELSE d[i]]
    ELSE Append(d, [key |-> k, val |-> v])

\* the membership test forgotten: the later item replaces the earlier one
dict_add_overwriting(d, k, v) == dict_set(d, k, v)

\* if k not in d: d[k] = v
dict_add_if_absent(d, k, v) ==
    IF dict_has(d, k) THEN d ELSE Append(d, [key |-> k, val |-> v])

----------------------------------------------------------------------------
(* Candidate fusion: wdqs_film_filter, filter_films, film_by_key *)

BatchSize == 2

FilmItem(binding) ==
    [title |-> IF binding.label # <<>> THEN binding.label
               ELSE url_to_title(binding.article_url),
     wikipedia_title |-> url_to_title(binding.article_url),
     wikidata_id |-> binding.qid]

Permutations_of(S) ==
    {p \in [1..Cardinality(S) -> S] : \A x \in S : \E i \in DOMAIN p : p[i] = x}

\* The possible answers of the endpoint for one batch: one binding for each
\* film article whose URL is among the VALUES, in an order the endpoint chooses.
wdqs_film_filter(titles) ==
    LET urls == {title_to_url(titles[i]) : i \in 1..Len(titles)}
        bindings == {[article_url |-> title_to_url(f.article),
                      label |-> f.label, qid |-> f.qid] :
                     f \in {g \in wdqs_films : title_to_url(g.article) \in urls}}
    IN IF titles = <<>> THEN {<<>>}
       ELSE {[i \in DOMAIN p |-> FilmItem(p[i])] : p \in Permutations_of(bindings)}

\* lines 300-303 for the items of one response
RECURSIVE add_films(_, _)
add_films(d, items) ==
    IF items = <<>> THEN d
    ELSE add_films(dict_add_if_absent(d, normalize_key(Head(items).wikipedia_title),
                                      Head(items)),
                   Tail(items))

\* line 535: {normalize_key(item.wikipedia_title): item for item in film_items}
RECURSIVE dict_of_items(_)
dict_of_items(items) ==
    IF items = <<>> THEN <<>>
    ELSE dict_set(dict_of_items(Prefix(items, Len(items) - 1)),
                  normalize_key(items[Len(items)].wikipedia_title),
                  items[Len(items)])

batch_of(titles, start) ==
    SubSeq(titles, start,
           IF start + BatchSize - 1 < Len(titles) THEN start + BatchSize - 1
           ELSE Len(titles))

tag_offered(call, items) == [i \in 1..Len(items) |-> [call |-> call, item |-> items[i]]]

\* filter_films(candidates): one pass of the batch loop, lines 291-303
FilterCandidatesBatch ==
    /\ pc = "filter_candidates"
    /\ batch_start <= Len(candidates)
    /\ \E resp \in wdqs_film_filter(batch_of(candidates, batch_start)) :
         /\ films' = add_films(films, resp)
         /\ offered' = offered \o tag_offered(1, resp)
    /\ batch_start' = batch_start + BatchSize
    /\ UNCHANGED <<inputs, pc, film_items, film_by_key, goat_vars, goat_items,
                   goat_selected, pool_vars, likely_selected, seed_items,
                   entries_seen, pv_writes>>

\* line 304 (return), lines 525 and 535
BuildFilmByKey ==
    /\ pc = "filter_candidates"
    /\ batch_start > Len(candidates)
    /\ film_items' = dict_values(films)
    /\ film_by_key' = dict_of_items(dict_values(films))
    /\ pc' = "goat_list"
    /\ UNCHANGED <<inputs, filter_vars, goat_vars, goat_items, goat_selected,
                   pool_vars, likely_selected, seed_items, hist>>

----------------------------------------------------------------------------
(* Consensus scoring: build_goat_scores *)

NumLists == 2
POINTS_BASE == 101
BEST_RANK_SENTINEL == 999

\* the clamp at 0 forgotten
points_for_unclamped(rank) == POINTS_BASE - rank

points_for(rank) == IF POINTS_BASE - rank > 0 THEN POINTS_BASE - rank ELSE 0

\* best_rank overwritten by the rank of the latest entry
accumulate_latest_rank(scores, rank, title) ==
    LET key == normalize_key(title)
        old == IF dict_has(scores, key) THEN dict_get(scores, key)
               ELSE [points |-> 0, lists |-> 0, best_rank |-> BEST_RANK_SENTINEL,
                     title |-> title]
    IN dict_set(scores, key,
                [points |-> old.points + points_for(rank),
                 lists |-> old.lists + 1,
                 best_rank |-> rank,
                 title |-> title])

\* lines 462-470 for one (rank, title)
accumulate(scores, rank, title) ==
    LET key == normalize_key(title)
        old == IF dict_has(scores, key) THEN dict_get(scores, key)
               ELSE [points |-> 0, lists |-> 0, best_rank |-> BEST_RANK_SENTINEL,
                     title |-> title]
    IN dict_set(scores, key,
                [points |-> old.points + points_for(rank),
                 lists |-> old.lists + 1,
                 best_rank |-> IF rank < old.best_rank THEN rank ELSE old.best_rank,
                 title |-> title])

\* lines 443-459: one GOAT list is looked up, parsed and extracted
GoatList ==
    /\ pc = "goat_list"
    /\ list_idx <= NumLists
    /\ LET page == list_pages[list_idx]
           found == IF page.found /\ page.html # <<>>
                    THEN extract_ranked_from_html(page.html[1]) ELSE <<>>
       IN IF found = <<>>
          THEN /\ list_idx' = list_idx + 1
               /\ UNCHANGED <<pc, ranked, entry_idx>>
          ELSE /\ ranked' = found
               /\ entry_idx' = 1
               /\ pc' = "goat_entry"
               /\ UNCHANGED list_idx
    /\ UNCHANGED <<inputs, filter_vars, film_items, film_by_key, goat_scores,
                   goat_items, goat_selected, pool_vars, likely_selected,
                   seed_items, hist>>

\* lines 461-470: one entry of the current list is accumulated
GoatEntry ==
    /\ pc = "goat_entry"
    /\ goat_scores' = accumulate(goat_scores, ranked[entry_idx][1], ranked[entry_idx][2])
    /\ entries_seen' = Append(entries_seen,
           [list |-> list_idx, rank |-> ranked[entry_idx][1],
            title |-> ranked[entry_idx][2]])
    /\ IF entry_idx < Len(ranked)
       THEN /\ entry_idx' = entry_idx + 1
            /\ UNCHANGED <<pc, list_idx>>
       ELSE /\ list_idx' = list_idx + 1
            /\ pc' = "goat_list"
            /\ UNCHANGED entry_idx
    /\ UNCHANGED <<inputs, filter_vars, film_items, film_by_key, ranked,
                   goat_items, goat_selected, pool_vars, likely_selected,
                   seed_items, offered, pv_writes>>

\* line 472 (return), lines 538-542: filter_films(goat_titles) starts
ReturnGoatScores ==
    /\ pc = "goat_list"
    /\ list_idx > NumLists
    /\ films' = <<>>
    /\ batch_start' = 1
    /\ pc' = "filter_goat"
    /\ UNCHANGED <<inputs, film_items, film_by_key, goat_vars, goat_items,
                   goat_selected, pool_vars, likely_selected, seed_items, hist>>

\* line 541
goat_titles == [i \in 1..Len(goat_scores) |-> goat_scores[i].val.title]

\* filter_films(goat_titles): one pass of the batch loop, lines 291-303
FilterGoatBatch ==
    /\ pc = "filter_goat"
    /\ batch_start <= Len(goat_titles)
    /\ \E resp \in wdqs_film_filter(batch_of(goat_titles, batch_start)) :
         /\ films' = add_films(films, resp)
         /\ offered' = offered \o tag_offered(2, resp)
    /\ batch_start' = batch_start + BatchSize
    /\ UNCHANGED <<inputs, pc, film_items, film_by_key, goat_vars, goat_items,
                   goat_selected, pool_vars, likely_selected, seed_items,
                   entries_seen, pv_writes>>

\* lines 551-554
RECURSIVE merge_goat_items(_, _)
merge_goat_items(d, items) ==
    IF items = <<>> THEN d
    ELSE merge_goat_items(
             dict_add_if_absent(d, normalize_key(Head(items).wikipedia_title),
                                Head(items)),
             Tail(items))

\* line 304 (return), lines 542 and 551-554
MergeGoatItems ==
    /\ pc = "filter_goat"
    /\ batch_start > Len(goat_titles)
    /\ goat_items' = dict_values(films)
    /\ film_by_key' = merge_goat_items(film_by_key, dict_values(films))
    /\ pc' = "select_goat"
    /\ UNCHANGED <<inputs, filter_vars, film_items, goat_vars, goat_selected,
                   pool_vars, likely_selected, seed_items, hist>>

----------------------------------------------------------------------------
(* Reserved segment: lines 556-568 *)

\* line 556
goat_keys_of(items) == {normalize_key(items[i].wikipedia_title) : i \in 1..Len(items)}

\* best_rank negated like the other two components
goat_before_worst_rank_first(x, y) ==
    \/ x.val.points > y.val.points
    \/ x.val.points = y.val.points /\ x.val.lists > y.val.lists
    \/ x.val.points = y.val.points /\ x.val.lists = y.val.lists
       /\ x.val.best_rank > y.val.best_rank

\* line 564: (-points, -lists, best_rank) compared as tuples
goat_before(x, y) ==
    \/ x.val.points > y.val.points
    \/ x.val.points = y.val.points /\ x.val.lists > y.val.lists
    \/ x.val.points = y.val.points /\ x.val.lists = y.val.lists
       /\ x.val.best_rank < y.val.best_rank

\* the slice taken before the unresolved records are dropped
goat_ranked_limit_first(scores, items) ==
    LET Resolved(e) == normalize_key(e.val.title) \in goat_keys_of(items)
    IN SelectSeq(PySliceTo(StableSort(scores,
                    {p \in IndexPairs(scores) : goat_before(scores[p[1]], scores[p[2]])}),
                    goat_limit), Resolved)

\* lines 558-565
goat_ranked_of(scores, items) ==
    LET Resolved(e) == normalize_key(e.val.title) \in goat_keys_of(items)
        kept == SelectSeq(scores, Resolved)
    IN StableSort(kept, {p \in IndexPairs(kept) : goat_before(kept[p[1]], kept[p[2]])})

\* lines 558-568
SelectGoat ==
    /\ pc = "select_goat"
    /\ goat_selected' = PySliceTo(goat_ranked_of(goat_scores, goat_items), goat_limit)
    /\ pc' = "fetch"
    /\ UNCHANGED <<inputs, filter_vars, film_items, film_by_key, goat_vars,
                   goat_items, pool_vars, likely_selected, seed_items, hist>>

----------------------------------------------------------------------------
(* Concurrent fetch: lines 571-598.  An outcome of the pageviews call is a  *)
(* count >= 0, or -1 when the call raises.                                  *)

\* lines 572-587
fetch_one(entry) ==
    LET outcome == pv_source[entry.val.wikipedia_title]
    IN IF outcome >= 0 THEN [key |-> entry.key, total |-> outcome, exc |-> FALSE]
       ELSE [key |-> entry.key, total |-> 0, exc |-> TRUE]

\* line 590: executor.submit for the next entry of film_by_key.items()
Submit ==
    /\ pc = "fetch"
    /\ submitted < Len(film_by_key)
    /\ queue' = Append(queue, film_by_key[submitted + 1])
    /\ submitted' = submitted + 1
    /\ UNCHANGED <<inputs, pc, filter_vars, film_items, film_by_key, goat_vars,
                   goat_items, goat_selected, running, finished, pv_totals,
                   likely_selected, seed_items, hist>>

\* a free worker of the pool takes the oldest queued entry
WorkerStart ==
    /\ pc = "fetch"
    /\ queue # <<>>
    /\ Cardinality(running) < max_workers
    /\ running' = running \cup {Head(queue)}
    /\ queue' = Tail(queue)
    /\ UNCHANGED <<inputs, pc, filter_vars, film_items, film_by_key, goat_vars,
                   goat_items, goat_selected, finished, submitted, pv_totals,
                   likely_selected, seed_items, hist>>

\* a worker returns from fetch_one: its future completes
WorkerFinish ==
    /\ pc = "fetch"
    /\ \E entry \in running :
         /\ running' = running \ {entry}
         /\ finished' = finished \cup {fetch_one(entry)}
    /\ UNCHANGED <<inputs, pc, filter_vars, film_items, film_by_key, goat_vars,
                   goat_items, goat_selected, queue, submitted, pv_totals,
                   likely_selected, seed_items, hist>>

\* the write moved under an else: a failed fetch leaves no entry
Collect_skipping_failures ==
    /\ pc = "fetch"
    /\ submitted = Len(film_by_key)
    /\ \E res \in finished :
         /\ finished' = finished \ {res}
         /\ pv_totals' = IF res.exc THEN pv_totals
                         ELSE dict_set(pv_totals, res.key, res.total)
         /\ pv_writes' = IF res.exc THEN pv_writes ELSE Append(pv_writes, res)
    /\ UNCHANGED <<inputs, pc, filter_vars, film_items, film_by_key, goat_vars,
                   goat_items, goat_selected, queue, running, submitted,
                   likely_selected, seed_items, offered, entries_seen>>

\* lines 591-598: as_completed yields one completed future
Collect ==
    /\ pc = "fetch"
    /\ submitted = Len(film_by_key)
    /\ \E res \in finished :
         /\ finished' = finished \ {res}
         /\ pv_totals' = dict_set(pv_totals, res.key, res.total)
         /\ pv_writes' = Append(pv_writes, res)
    /\ UNCHANGED <<inputs, pc, filter_vars, film_items, film_by_key, goat_vars,
                   goat_items, goat_selected, queue, running, submitted,
                   likely_selected, seed_items, offered, entries_seen>>

\* line 589: the with block ends once every future has been yielded
Join ==
    /\ pc = "fetch"
    /\ submitted = Len(film_by_key)
    /\ queue = <<>> /\ running = {} /\ finished = {}
    /\ pc' = "joined"
    /\ UNCHANGED <<inputs, filter_vars, film_items, film_by_key, goat_vars,
                   goat_items, goat_selected, pool_vars, likely_selected,
                   seed_items, hist>>

----------------------------------------------------------------------------
(* Popularity score: lines 600-608.  A weight is a number of quarters (the  *)
(* float q/4); a score is the exact rational <<num, den>>.                  *)

\* lines 475-492: a row is [blank, comment, parts]; a weight string is
\* [ok |-> whether float() accepts it, quarters |-> its value in quarters]
RECURSIVE load_rows(_, _)
load_rows(weights, rows) ==
    IF rows = <<>> THEN weights
    ELSE LET row == Head(rows)
         IN IF row.blank \/ row.comment \/ Len(row.parts) < 2
               \/ ~row.parts[2].ok
            THEN load_rows(weights, Tail(rows))
            ELSE load_rows(dict_set(weights, normalize_key(row.parts[1]),
                                    row.parts[2].quarters),
                           Tail(rows))

load_us_weights(path) == IF path = <<>> THEN <<>> ELSE load_rows(<<>>, path[1])

\* line 601
us_weights == load_us_weights(us_weight_file)

\* line 600
max_pv ==
    IF pv_totals # <<>> THEN Max({pv_totals[i].val : i \in 1..Len(pv_totals)}) ELSE 1

pv_get(key) == IF dict_has(pv_totals, key) THEN dict_get(pv_totals, key) ELSE 0

\* line 604 raises ZeroDivisionError
search_score_raises == max_pv = 0

\* "if us_weight:" in place of "if us_weights:"
search_score_testing_weight(key) ==
    LET us_weight == IF dict_has(us_weights, key) THEN dict_get(us_weights, key) ELSE 0
    IN IF us_weight # 0
       THEN <<12 * pv_get(key) + us_weight * max_pv, 16 * max_pv>>
       ELSE <<pv_get(key), max_pv>>

\* lines 603-608, for max_pv # 0
search_score(key) ==
    LET us_weight == IF dict_has(us_weights, key) THEN dict_get(us_weights, key) ELSE 0
    IN IF us_weights # <<>>
       THEN <<12 * pv_get(key) + us_weight * max_pv, 16 * max_pv>>
       ELSE <<pv_get(key), max_pv>>

score_gt(a, b) == a[1] * b[2] > b[1] * a[2]

----------------------------------------------------------------------------
(* Remainder segment and output: lines 610-649 *)

\* the reserved identities are not excluded
likely_candidates_with_goat ==
    LET scored == [i \in 1..Len(film_by_key) |->
                      <<film_by_key[i].key, search_score(film_by_key[i].key)>>]
    IN StableSort(scored,
           {p \in IndexPairs(scored) : score_gt(scored[p[1]][2], scored[p[2]][2])})

\* the candidates are walked in the order their counts arrived
likely_candidates_in_arrival_order ==
    LET goat_keys == Range(dict_keys(goat_selected))
        NotGoat(e) == e.key \notin goat_keys
        rest == SelectSeq(pv_totals, NotGoat)
        scored == [i \in 1..Len(rest) |-> <<rest[i].key, search_score(rest[i].key)>>]
    IN StableSort(scored,
           {p \in IndexPairs(scored) : score_gt(scored[p[1]][2], scored[p[2]][2])})

\* lines 610-616
likely_candidates ==
    LET goat_keys == Range(dict_keys(goat_selected))
        NotGoat(e) == e.key \notin goat_keys
        rest == SelectSeq(film_by_key, NotGoat)
        scored == [i \in 1..Len(rest) |-> <<rest[i].key, search_score(rest[i].key)>>]
    IN StableSort(scored,
           {p \in IndexPairs(scored) : score_gt(scored[p[1]][2], scored[p[2]][2])})

likely_limit == IF seed_limit - goat_limit > 0 THEN seed_limit - goat_limit ELSE 0

\* lines 600-617
SelectLikely ==
    /\ pc = "joined"
    /\ IF search_score_raises
          /\ \E i \in 1..Len(film_by_key) :
                film_by_key[i].key \notin Range(dict_keys(goat_selected))
       THEN /\ pc' = "aborted"
            /\ UNCHANGED likely_selected
       ELSE /\ likely_selected' = PySliceTo(likely_candidates, likely_limit)
            /\ pc' = "emit"
    /\ UNCHANGED <<inputs, filter_vars, film_items, film_by_key, goat_vars,
                   goat_items, goat_selected, pool_vars, seed_items, hist>>

\* lines 620-634
goat_rows ==
    LET Known(e) == dict_has(film_by_key, e.key)
        sel == SelectSeq(goat_selected, Known)
    IN [i \in 1..Len(sel) |->
          LET item == dict_get(film_by_key, sel[i].key)
          IN [title |-> item.title, wikipedia_title |-> item.wikipedia_title,
              wikidata_id |-> item.wikidata_id, segment |-> "goat",
              goat_score |-> sel[i].val.points,
              pageviews_12m |-> pv_get(sel[i].key),
              search_score |-> search_score(sel[i].key)]]

\* lines 635-649
likely_rows ==
    LET Known(e) == dict_has(film_by_key, e[1])
        sel == SelectSeq(likely_selected, Known)
    IN [i \in 1..Len(sel) |->
          LET item == dict_get(film_by_key, sel[i][1])
          IN [title |-> item.title, wikipedia_title |-> item.wikipedia_title,
              wikidata_id |-> item.wikidata_id, segment |-> "likely",
              goat_score |-> -1,
              pageviews_12m |-> pv_get(sel[i][1]),
              search_score |-> sel[i][2]]]

\* lines 619-649
Emit ==
    /\ pc = "emit"
    /\ IF search_score_raises
          /\ \E i \in 1..Len(goat_selected) : dict_has(film_by_key, goat_selected[i].key)
       THEN /\ pc' = "aborted"
            /\ UNCHANGED seed_items
       ELSE /\ seed_items' = goat_rows \o likely_rows
            /\ pc' = "done"
    /\ UNCHANGED <<inputs, filter_vars, film_items, film_by_key, goat_vars,
                   goat_items, goat_selected, pool_vars, likely_selected, hist>>

Next ==
    \/ FilterCandidatesBatch
    \/ BuildFilmByKey
    \/ GoatList
    \/ GoatEntry
    \/ ReturnGoatScores
    \/ FilterGoatBatch
    \/ MergeGoatItems
    \/ SelectGoat
    \/ Submit
    \/ WorkerStart
    \/ WorkerFinish
    \/ Collect
    \/ Join
    \/ SelectLikely
    \/ Emit

----------------------------------------------------------------------------
(* The inputs the model runs on *)

MaxWorkers == 2
MaxViews == 2
MaxLimit == 3

T_A == <<"A">>
T_a == <<"a">>
T_B == <<"B">>
T_C == <<"C">>
T_A_C == <<"A", " ", "C">>
T_a_c == <<"a", "\t", " ", "c">>
T_AslashB == <<"A", "/", "B">>

\* What the WDQS endpoint knows: article title, label ("" when it has none), item id
F_A == [article |-> T_A, label |-> <<"A">>, qid |-> "Q1"]
F_B == [article |-> T_B, label |-> <<>>, qid |-> "Q2"]
F_C == [article |-> T_C, label |-> <<"C">>, qid |-> "Q3"]
F_a == [article |-> T_a, label |-> <<"a">>, qid |-> "Q4"]
F_A_C == [article |-> T_A_C, label |-> <<>>, qid |-> "Q5"]
F_AslashB == [article |-> T_AslashB, label |-> <<"A", "/", "B">>, qid |-> "Q6"]
FilmArticles == {F_A, F_B, F_C, F_a, F_A_C, F_AslashB}

\* the wikipedia_title values a FilmItem can carry
Articles == {url_to_title(title_to_url(f.article)) : f \in FilmArticles}

LinkTo(t) == [href |-> <<"/wiki/">> \o t, title |-> t, text |-> t]
ExternalLink(t) == [href |-> <<"http://">> \o t, title |-> t, text |-> t]
FileLink == [href |-> <<"/wiki/", "File", ":", "A">>,
             title |-> <<"File", ":", "A">>, text |-> <<>>]
N_none == [italic |-> <<>>, links |-> <<>>]
N_link(t) == [italic |-> <<>>, links |-> <<LinkTo(t)>>]
N_italic(t) == [italic |-> <<[link |-> <<LinkTo(t)>>, text |-> t]>>,
                links |-> <<LinkTo(t)>>]
N_italic_text(t) == [italic |-> <<[link |-> <<>>, text |-> t]>>, links |-> <<>>]
N_file_then(t) == [italic |-> <<>>,
                   links |-> <<FileLink, ExternalLink(T_C), LinkTo(t)>>]

\* an <ol> of n direct items; titled maps some positions to their nodes
Ol(n, titled) ==
    [tag |-> "ol", class |-> {}, rows |-> <<>>,
     lis |-> [i \in 1..n |-> IF i \in DOMAIN titled THEN titled[i] ELSE N_none]]

Number(n) == [digits |-> IF n < 10 THEN 1 ELSE IF n < 100 THEN 2
                         ELSE IF n < 1000 THEN 3 ELSE 4,
              value |-> n]
Word == [digits |-> 0, value |-> 0]
Row(first_cell, node) == [cells |-> <<first_cell, <<Word>>>>, node |-> node]
Table(class, rows) == [tag |-> "table", class |-> class, rows |-> rows, lis |-> <<>>]

Doc_ol_AB == <<Ol(MIN_LIST_ITEMS, 1 :> N_italic(T_A) @@ 2 :> N_link(T_B))>>
Doc_ol_BaC ==
    <<Ol(MIN_LIST_ITEMS + 1,
         1 :> N_link(T_B) @@ 2 :> N_italic_text(T_a) @@ 51 :> N_file_then(T_C))>>
Doc_ol_dup ==
    <<Ol(MIN_LIST_ITEMS, 1 :> N_link(T_A) @@ 2 :> N_link(T_a) @@ 3 :> N_link(T_a_c))>>
Doc_short_ol_table ==
    <<Ol(MIN_LIST_ITEMS - 1, 1 :> N_link(T_C)),
      Table({"wikitable"},
            <<[cells |-> <<>>, node |-> N_link(T_C)],
              Row(<<Word>>, N_link(T_C)),
              Row(<<Number(1994), Number(1)>>, N_link(T_A)),
              Row(<<Number(100)>>, N_link(T_A_C)),
              Row(<<Number(150)>>, N_italic(T_B))>>)>>
Doc_ol_and_table ==
    <<Table({"sortable"}, <<Row(<<Number(1)>>, N_link(T_C))>>),
      Ol(MIN_LIST_ITEMS, 1 :> N_none),
      Ol(MIN_LIST_ITEMS, 1 :> N_link(T_AslashB) @@ 2 :> N_link(T_B) @@ 3 :> N_link(T_A)),
      Ol(MIN_LIST_ITEMS, 1 :> N_link(T_C))>>
Doc_untitled_ol_table ==
    <<Ol(MIN_LIST_ITEMS, 1 :> N_none),
      Table({}, <<Row(<<Number(101)>>, N_link(T_A)), Row(<<Number(150)>>, N_link(T_B)),
                  Row(<<Number(102)>>, N_link(T_C))>>)>>
Doc_two_tables ==
    <<Table({}, <<Row(<<Number(150)>>, N_link(T_A)), Row(<<Number(101)>>, N_link(T_B)),
                  Row(<<Number(102)>>, N_link(T_C))>>),
      Table({"wikitable"}, <<Row(<<Number(1)>>, N_link(T_A))>>)>>
Doc_nothing == <<Ol(3, 1 :> N_link(T_A)), Table({}, <<Row(<<Word>>, N_link(T_B))>>)>>

Docs == {Doc_ol_AB, Doc_ol_BaC, Doc_ol_dup, Doc_short_ol_table, Doc_ol_and_table,
         Doc_untitled_ol_table, Doc_two_tables, Doc_nothing}

\* mw_opensearch found no page; mw_parse_html returned None; a parsed page
NoPage == [found |-> FALSE, html |-> <<>>]
NoParse == [found |-> TRUE, html |-> <<>>]
Page(doc) == [found |-> TRUE, html |-> <<doc>>]
ListPages == {NoPage, NoParse} \cup {Page(d) : d \in Docs}

WeightRow(title, q) ==
    [blank |-> FALSE, comment |-> FALSE,
     parts |-> <<title, [ok |-> TRUE, quarters |-> q]>>]
BadRows ==
    <<[blank |-> TRUE, comment |-> FALSE, parts |-> <<>>],
      [blank |-> FALSE, comment |-> TRUE, parts |-> <<T_A>>],
      [blank |-> FALSE, comment |-> FALSE, parts |-> <<T_A>>],
      [blank |-> FALSE, comment |-> FALSE,
       parts |-> <<T_B, [ok |-> FALSE, quarters |-> 0]>>]>>
NoWeightFile == <<>>
WeightFiles ==
    {NoWeightFile, <<BadRows>>,
     <<BadRows \o <<WeightRow(T_a, 4)>>>>,
     <<<<WeightRow(T_A, 1), WeightRow(T_B, 4), WeightRow(T_a, 2)>>>>}

PvOutcomes == -1..MaxViews

BaseCandidates == <<T_A, T_B, T_C>>
BaseFilms == {F_A, F_a, F_B, F_C, F_A_C}
BasePages == [i \in 1..NumLists |-> IF i = 1 THEN Page(Doc_ol_AB)
                                    ELSE Page(Doc_short_ol_table)]
BasePv == [a \in Articles |-> IF a = T_A THEN 2 ELSE IF a = T_B THEN 1
                              ELSE IF a = T_C THEN 0 ELSE -1]

InitWith(Cs, Fs, Ls, Ps, Ws, GLs, SLs, MWs) ==
    /\ candidates \in Cs
    /\ wdqs_films \in Fs
    /\ list_pages \in Ls
    /\ pv_source \in Ps
    /\ us_weight_file \in Ws
    /\ goat_limit \in GLs
    /\ seed_limit \in SLs
    /\ max_workers \in MWs
    /\ pc = "filter_candidates"
    /\ films = <<>>
    /\ batch_start = 1
    /\ film_items = <<>>
    /\ film_by_key = <<>>
    /\ goat_scores = <<>>
    /\ list_idx = 1
    /\ ranked = <<>>
    /\ entry_idx = 1
    /\ goat_items = <<>>
    /\ goat_selected = <<>>
    /\ queue = <<>>
    /\ running = {}
    /\ finished = {}
    /\ submitted = 0
    /\ pv_totals = <<>>
    /\ likely_selected = <<>>
    /\ seed_items = <<>>
    /\ offered = <<>>
    /\ entries_seen = <<>>
    /\ pv_writes = <<>>

PvOn(f) == [a \in Articles |-> IF a \in DOMAIN f THEN f[a] ELSE -1]
PvTies == PvOn(T_A :> 0 @@ T_B :> 1 @@ T_C :> 1 @@ T_A_C :> 1)
PvAllZero == PvOn(T_A :> 0 @@ T_C :> 0)

\* every combination of list pages; the rest of the run is fixed
InitLists ==
    InitWith({BaseCandidates}, {BaseFilms}, [1..NumLists -> ListPages], {BasePv},
             {NoWeightFile}, {MaxLimit}, {MaxLimit + 1}, {1})

SpecLists == InitLists /\ [][Next]_vars

----------------------------------------------------------------------------
(* Rank extraction *)

TitledPositions(ol) ==
    {j \in 1..Len(ol.lis) : extract_title_from_node(ol.lis[j]) # <<>>}

QualifyingOls(doc) ==
    {i \in 1..Len(doc) : /\ doc[i].tag = "ol"
                         /\ Len(doc[i].lis) >= 50
                         /\ TitledPositions(doc[i]) # {}}

RowEntries(table) ==
    {<<extract_rank(r.cells[1]), extract_title_from_node(r.node)>> :
        r \in {x \in Range(table.rows) :
                  /\ x.cells # <<>>
                  /\ extract_rank(x.cells[1]) # -1
                  /\ extract_title_from_node(x.node) # <<>>}}

Increasing(r) == \A k \in 1..(Len(r) - 1) : r[k][1] < r[k + 1][1]

ExtractionIsOrderedFallback(doc, r) ==
    /\ QualifyingOls(doc) # {} =>
          LET ol == doc[Min(QualifyingOls(doc))]
          IN /\ Range(r) = {<<j, extract_title_from_node(ol.lis[j])>> :
                               j \in TitledPositions(ol)}
             /\ Increasing(r)
    /\ QualifyingOls(doc) = {} =>
          \/ r = <<>> /\ \A i \in 1..Len(doc) :
                            doc[i].tag = "table" => RowEntries(doc[i]) = {}
          \/ r # <<>> /\ \E i \in 1..Len(doc) :
                            doc[i].tag = "table" /\ Range(r) = RowEntries(doc[i])

ParsedDocs == {list_pages[i].html[1] :
                  i \in {j \in 1..NumLists : list_pages[j].found /\ list_pages[j].html # <<>>}}

\* C10: extraction is a strictly ordered fallback.  When an <ol> with at least 50
\* direct items has a titled item, the result is exactly the titled items of the
\* first such list, each with its 1-based position; otherwise the result is the
\* ranked, titled rows of one table, or empty when no table has any; an <ol> with
\* fewer than 50 direct items contributes nothing.  This holds of every parsed
\* document and of the list the scorer is accumulating.
C10_OrderedFallback ==
    /\ pc = "goat_list" =>
          \A doc \in ParsedDocs :
              ExtractionIsOrderedFallback(doc, extract_ranked_from_html(doc))
    /\ pc = "goat_entry" =>
          ExtractionIsOrderedFallback(list_pages[list_idx].html[1], ranked)

\* a document with a qualifying <ol>, a short <ol>-free table with entries before
\* it, and the list's entries being accumulated
C10_Witness ==
    /\ pc = "goat_entry"
    /\ LET doc == list_pages[list_idx].html[1]
       IN /\ QualifyingOls(doc) # {}
          /\ \E i \in 1..Len(doc) : doc[i].tag = "table" /\ RowEntries(doc[i]) # {}
          /\ \E i \in 1..Len(doc) : doc[i].tag = "ol" /\ TitledPositions(doc[i]) = {}
    /\ Len(ranked) = 3

----------------------------------------------------------------------------
(* Consensus scoring and ordering *)

RECURSIVE SumOver(_, _)
SumOver(es, key) ==
    IF es = <<>> THEN 0
    ELSE (IF normalize_key(Head(es).title) = key
          THEN (IF Head(es).rank >= 101 THEN 0 ELSE 101 - Head(es).rank)
          ELSE 0) + SumOver(Tail(es), key)

\* C6: the points of every consensus record are the sum of max(0, 101 - rank) over
\* the accumulated entries whose normalized title is the record's identity, and
\* every accumulated entry, whatever its rank, has a record.
C6_PointsAreSums ==
    /\ \A i \in 1..Len(goat_scores) :
          goat_scores[i].val.points = SumOver(entries_seen, goat_scores[i].key)
    /\ \A k \in 1..Len(entries_seen) :
          dict_has(goat_scores, normalize_key(entries_seen[k].title))

\* entries at rank 1, rank 100 and rank 150 have been accumulated; the record
\* whose only entry is at rank 150 exists with 0 points
C6_Witness ==
    /\ \E k \in 1..Len(entries_seen) : entries_seen[k].rank = 1
    /\ \E k \in 1..Len(entries_seen) : entries_seen[k].rank = 100
    /\ \E i \in 1..Len(goat_scores) :
          /\ goat_scores[i].val.points = 0
          /\ goat_scores[i].val.best_rank = 150
    /\ \E i \in 1..Len(goat_scores) :
          goat_scores[i].val.lists >= 2 /\ goat_scores[i].val.points >= 100

FirstSeen(key) ==
    Min({k \in 1..Len(entries_seen) : normalize_key(entries_seen[k].title) = key})

\* C7: the ranked records are in ascending order of (-points, -list_count,
\* best_rank), and records equal on all three are in the order in which their
\* identities were first encountered.
C7_ConsensusOrder ==
    pc \in {"fetch", "joined", "emit", "done", "aborted"} =>
        \A i \in 1..(Len(goat_selected) - 1) :
            LET a == goat_selected[i].val
                b == goat_selected[i + 1].val
            IN \/ a.points > b.points
               \/ a.points = b.points /\ a.lists > b.lists
               \/ /\ a.points = b.points /\ a.lists = b.lists
                  /\ a.best_rank < b.best_rank
               \/ /\ a.points = b.points /\ a.lists = b.lists
                  /\ a.best_rank = b.best_rank
                  /\ FirstSeen(goat_selected[i].key) < FirstSeen(goat_selected[i + 1].key)

\* three ranked records: a true tie kept in encounter order, then a pair decided
\* by best_rank alone
C7_Witness ==
    /\ pc = "fetch"
    /\ Len(goat_selected) = 3
    /\ LET a == goat_selected[1].val
           b == goat_selected[2].val
           c == goat_selected[3].val
       IN /\ a.points = b.points /\ a.lists = b.lists /\ a.best_rank = b.best_rank
          /\ b.points = c.points /\ b.lists = c.lists /\ b.best_rank < c.best_rank

\* candidate orders, endpoint knowledge and list pages vary: collisions of
\* identities between batches and between the two discovery paths
InitFusion ==
    InitWith({<<T_a, T_B, T_A>>, <<T_A, T_B, T_a>>, <<T_A, T_AslashB, T_B>>,
              <<T_B, T_A_C>>, <<>>},
             {FilmArticles, BaseFilms \ {F_a}, {F_A, F_AslashB}, {}},
             [1..NumLists -> {Page(Doc_ol_AB), Page(Doc_ol_BaC),
                              Page(Doc_ol_and_table), Page(Doc_ol_dup)}],
             {BasePv}, {NoWeightFile}, {1}, {MaxLimit}, {1})

SpecFusion == InitFusion /\ [][Next]_vars

\* fetch outcomes, completion orders, worker counts and weight files vary
InitFetch ==
    InitWith({BaseCandidates}, {{F_A, F_B, F_C}}, {BasePages},
             {PvOn(f) : f \in [{T_A, T_B, T_C} -> PvOutcomes]},
             WeightFiles, {1}, {MaxLimit}, 1..MaxWorkers)

SpecFetch == InitFetch /\ [][Next]_vars

\* budgets (every integer of a small range around 0), resolvable records and
\* scores vary
InitSelect ==
    InitWith({BaseCandidates},
             {BaseFilms, {F_A, F_B, F_C}, {F_B, F_C, F_A_C}},
             {BasePages}, {BasePv, PvTies, PvAllZero}, {NoWeightFile},
             -1..MaxLimit, -1..(MaxLimit + 1), {1})

SpecSelect == InitSelect /\ [][Next]_vars

----------------------------------------------------------------------------
(* Candidate fusion *)

KeyOf(item) == normalize_key(item.wikipedia_title)

\* the items of a sequence whose identity no earlier item has, in order
FirstWins(items) ==
    LET idx == {i \in 1..Len(items) :
                   \A j \in 1..(i - 1) : KeyOf(items[j]) # KeyOf(items[i])}
    IN [p \in 1..Cardinality(idx) |->
           items[CHOOSE i \in idx : Cardinality({j \in idx : j <= i}) = p]]

OfferedIn(calls) ==
    LET InCall(o) == o.call \in calls
        sel == SelectSeq(offered, InCall)
    IN [i \in 1..Len(sel) |-> sel[i].item]

OneItemPerIdentity(d) ==
    /\ \A i, j \in 1..Len(d) : d[i].key = d[j].key => i = j
    /\ \A i \in 1..Len(d) : d[i].key = KeyOf(d[i].val)

\* C8: after any sequence of insertions, the local map of filter_films and
\* film_by_key hold one item per normalized identity, the first one offered for
\* it, in first-insertion order: film_by_key is FirstWins of everything the
\* candidate path offered and, once merged, of that followed by everything the
\* consensus path offered.
C8_FirstWriteWins ==
    /\ OneItemPerIdentity(films)
    /\ OneItemPerIdentity(film_by_key)
    /\ pc = "filter_candidates" => dict_values(films) = FirstWins(OfferedIn({1}))
    /\ pc \in {"goat_list", "goat_entry", "filter_goat"} =>
          dict_values(film_by_key) = FirstWins(OfferedIn({1}))
    /\ pc = "filter_goat" => dict_values(films) = FirstWins(OfferedIn({2}))
    /\ pc \in {"select_goat", "fetch", "joined", "emit", "done", "aborted"} =>
          dict_values(film_by_key) = FirstWins(OfferedIn({1, 2}))

\* the merge is done; one identity was offered twice with different titles by two
\* batches of the candidate path, and again by the consensus path
C8_Witness ==
    /\ pc = "select_goat"
    /\ \E i, j, k \in 1..Len(offered) :
          /\ i < j /\ j < k
          /\ offered[i].call = 1 /\ offered[j].call = 1 /\ offered[k].call = 2
          /\ KeyOf(offered[i].item) = KeyOf(offered[j].item)
          /\ KeyOf(offered[j].item) = KeyOf(offered[k].item)
          /\ offered[i].item.wikipedia_title # offered[j].item.wikipedia_title
          /\ offered[i].item.wikipedia_title # offered[k].item.wikipedia_title
          /\ j - i >= BatchSize

----------------------------------------------------------------------------
(* Concurrent fetch *)

Joined == pc \in {"joined", "emit", "done", "aborted"}

\* C2: no identity is ever written twice, and once the pool is joined pv_totals
\* holds exactly one entry per identity of the fused universe, written once: 0
\* for an identity whose fetch raised, the fetched count for every other.
C2_FetchBatchComplete ==
    /\ \A i, j \in 1..Len(pv_writes) : pv_writes[i].key = pv_writes[j].key => i = j
    /\ Joined =>
          /\ Len(pv_totals) = Len(film_by_key)
          /\ Len(pv_writes) = Len(film_by_key)
          /\ \A i \in 1..Len(film_by_key) :
                LET outcome == pv_source[film_by_key[i].val.wikipedia_title]
                IN /\ dict_has(pv_totals, film_by_key[i].key)
                   /\ dict_get(pv_totals, film_by_key[i].key) =
                         (IF outcome < 0 THEN 0 ELSE outcome)

\* the pool is joined, no score computed yet; of three fetches one raised, one
\* returned a positive count, and they completed out of submission order
C2_Witness ==
    /\ pc = "joined"
    /\ Len(film_by_key) = 3
    /\ \E i \in 1..3 : pv_source[film_by_key[i].val.wikipedia_title] < 0
    /\ \E i \in 1..3 : pv_source[film_by_key[i].val.wikipedia_title] > 0
    /\ dict_keys(pv_totals) # dict_keys(film_by_key)

\* C3: the computation is never aborted, and whenever scores are computed
\* max_count is not 0 and every identity's raw count lies between 0 and max_count
\* (so that normalized = raw_count / max_count is defined and lies in [0,1]).
C3_NormalizedAlwaysDefined ==
    /\ pc # "aborted"
    /\ pc \in {"emit", "done"} =>
          /\ max_pv > 0
          /\ \A i \in 1..Len(film_by_key) :
                pv_get(film_by_key[i].key) >= 0 /\ pv_get(film_by_key[i].key) <= max_pv

----------------------------------------------------------------------------
(* Popularity score *)

RawCount(key) ==
    IF \E k \in 1..Len(pv_writes) : pv_writes[k].key = key
    THEN pv_writes[CHOOSE k \in 1..Len(pv_writes) : pv_writes[k].key = key].total
    ELSE 0

MaxCount ==
    IF pv_writes = <<>> THEN 1
    ELSE Max({pv_writes[k].total : k \in 1..Len(pv_writes)})

\* C9: every emitted score n/d equals 0.75 * raw/max + 0.25 * weight (weight 0 for
\* an identity absent from the mapping) when the weight mapping is not empty, and
\* raw/max when it is empty or no file was given; weight is q/4, so the first is
\* 16 * max * n = d * (12 * raw + q * max).
C9_ScoreFormula ==
    pc = "done" =>
        \A i \in 1..Len(seed_items) :
            LET key == KeyOf(seed_items[i])
                n == seed_items[i].search_score[1]
                d == seed_items[i].search_score[2]
                q == IF dict_has(us_weights, key) THEN dict_get(us_weights, key) ELSE 0
            IN /\ d > 0
               /\ us_weights # <<>> =>
                     16 * MaxCount * n = d * (12 * RawCount(key) + q * MaxCount)
               /\ us_weights = <<>> => n * MaxCount = d * RawCount(key)

\* weights were supplied; one emitted identity is absent from the mapping and has
\* a positive count, another has a positive weight
C9_Witness ==
    /\ pc = "done"
    /\ us_weights # <<>>
    /\ \E i \in 1..Len(seed_items) :
          /\ ~dict_has(us_weights, KeyOf(seed_items[i]))
          /\ seed_items[i].pageviews_12m > 0
    /\ \E i \in 1..Len(seed_items) :
          /\ dict_has(us_weights, KeyOf(seed_items[i]))
          /\ dict_get(us_weights, KeyOf(seed_items[i])) > 0

----------------------------------------------------------------------------
(* Segment selection *)

\* the elements of s at the indices idx, in order
SubSeqAt(s, idx) ==
    [p \in 1..Cardinality(idx) |->
        s[CHOOSE i \in idx : Cardinality({j \in idx : j <= i}) = p]]

GoatRows == LET IsGoat(r) == r.segment = "goat" IN SelectSeq(seed_items, IsGoat)
LikelyRows == LET IsLikely(r) == r.segment = "likely" IN SelectSeq(seed_items, IsLikely)
RowKeys(rows) == [i \in 1..Len(rows) |-> KeyOf(rows[i])]

\* C1: the output holds at most goat_limit reserved items and at most seed_limit
\* items, for every pair of budgets the command line accepts.
C1_WithinBudgets ==
    pc = "done" =>
        /\ Len(GoatRows) <= goat_limit
        /\ Len(seed_items) <= seed_limit

Resolvable(key) == \E i \in 1..Len(goat_items) : KeyOf(goat_items[i]) = key

ConsensusOrder ==
    StableSort(goat_scores,
        {p \in IndexPairs(goat_scores) : goat_before(goat_scores[p[1]], goat_scores[p[2]])})

\* the first goat_limit resolvable records of the consensus order
FirstResolvable ==
    LET all == ConsensusOrder
        idx == {i \in 1..Len(all) :
                   /\ Resolvable(all[i].key)
                   /\ Cardinality({j \in 1..(i - 1) : Resolvable(all[j].key)}) < goat_limit}
    IN SubSeqAt(all, idx)

ReservedIsFirstResolvable ==
    /\ pc \in {"fetch", "joined", "emit", "done", "aborted"} =>
          /\ goat_selected = FirstResolvable
          /\ \A i \in 1..Len(goat_selected) : dict_has(film_by_key, goat_selected[i].key)
    /\ pc = "done" => RowKeys(GoatRows) = dict_keys(FirstResolvable)

\* C4: the reserved segment is exactly the first goat_limit consensus records, in
\* consensus order, among those whose identity resolves to a candidate; an
\* unresolved record takes no slot; every selected identity is in the fused
\* universe.
C4_ReservedIsFirstResolvable == ReservedIsFirstResolvable

\* The same for the budgets that are counts (goat_limit >= 0): the statement of C4
\* holds of every run whose goat_limit is not negative.
ReservedIsFirstResolvable_NonNegative == goat_limit >= 0 => ReservedIsFirstResolvable

\* an unresolved record stands before a selected one in the consensus order, and
\* a resolvable record is cut by the limit
ReservedIsFirstResolvable_Witness ==
    /\ pc = "done"
    /\ goat_limit = 1
    /\ Len(GoatRows) = 1
    /\ LET all == ConsensusOrder
       IN /\ ~Resolvable(all[1].key)
          /\ all[2].key = KeyOf(GoatRows[1])
          /\ Resolvable(all[3].key)

Position(key) == CHOOSE i \in 1..Len(film_by_key) : film_by_key[i].key = key

\* k1 stands before k2 in the stable descending order of scores
Precedes(k1, k2) ==
    \/ score_gt(search_score(k1), search_score(k2))
    \/ /\ ~score_gt(search_score(k2), search_score(k1))
       /\ Position(k1) < Position(k2)

\* C5: the output is the reserved segment followed by the remainder segment, no
\* identity occurs twice, and the remainder segment is exactly the first
\* max(0, seed_limit - goat_limit) elements of the fused universe minus the
\* reserved identities in descending order of score, equal scores in universe
\* insertion order.
C5_RemainderSegment ==
    pc = "done" =>
        LET reserved == Range(RowKeys(GoatRows))
            likely == RowKeys(LikelyRows)
            rest == {film_by_key[i].key : i \in 1..Len(film_by_key)} \ reserved
            budget == IF seed_limit - goat_limit > 0 THEN seed_limit - goat_limit ELSE 0
        IN /\ seed_items = GoatRows \o LikelyRows
           /\ \A i, j \in 1..Len(seed_items) :
                 KeyOf(seed_items[i]) = KeyOf(seed_items[j]) => i = j
           /\ Range(likely) \subseteq rest
           /\ Len(likely) = (IF budget < Cardinality(rest) THEN budget
                             ELSE Cardinality(rest))
           /\ \A i \in 1..(Len(likely) - 1) : Precedes(likely[i], likely[i + 1])
           /\ \A k \in rest \ Range(likely) :
                 \A i \in 1..Len(likely) : Precedes(likely[i], k)
           /\ \A i \in 1..Len(LikelyRows) :
                 LikelyRows[i].search_score = search_score(likely[i])

\* one reserved item, two remainder items of equal score in insertion order, and
\* a candidate of the same score cut by the budget
C5_Witness ==
    /\ pc = "done"
    /\ Len(GoatRows) = 1
    /\ Len(LikelyRows) = 2
    /\ LikelyRows[1].search_score = LikelyRows[2].search_score
    /\ LikelyRows[1].pageviews_12m > 0
    /\ \E i \in 1..Len(film_by_key) :
          /\ film_by_key[i].key \notin Range(RowKeys(seed_items))
          /\ search_score(film_by_key[i].key) = LikelyRows[2].search_score

----------------------------------------------------------------------------
(* Table priority *)

DataTableClasses == {"wikitable", "sortable"}

YieldingTables(doc) ==
    {i \in 1..Len(doc) : doc[i].tag = "table" /\ RowEntries(doc[i]) # {}}

TaggedTables(doc) ==
    {i \in YieldingTables(doc) : doc[i].class \cap DataTableClasses # {}}

UntaggedTables(doc) == YieldingTables(doc) \ TaggedTables(doc)

\* C11: when the table strategy runs (no ordered list yields) on a document in
\* which a table tagged as a data table has a row with a rank and a title, the
\* entries being accumulated are the rows of a tagged table, wherever the
\* untagged tables stand in the document; an untagged table is used only when
\* no tagged table yields.
C11_TaggedTableFirst ==
    pc = "goat_entry" =>
        LET doc == list_pages[list_idx].html[1]
        IN (QualifyingOls(doc) = {} /\ TaggedTables(doc) # {}) =>
              \E i \in TaggedTables(doc) : Range(ranked) = RowEntries(doc[i])

\* the same statement for documents whose first yielding table is tagged
TaggedTableFirst_WhenLeading ==
    pc = "goat_entry" =>
        LET doc == list_pages[list_idx].html[1]
        IN (/\ QualifyingOls(doc) = {}
            /\ TaggedTables(doc) # {}
            /\ Min(YieldingTables(doc)) \in TaggedTables(doc)) =>
              Range(ranked) = RowEntries(doc[Min(YieldingTables(doc))])

----------------------------------------------------------------------------
(* Order independence of the output *)

\* what the fetch of an identity returns: a function of the inputs alone
FetchedCount(key) ==
    IF dict_has(film_by_key, key)
    THEN LET outcome == pv_source[dict_get(film_by_key, key).wikipedia_title]
         IN IF outcome >= 0 THEN outcome ELSE 0
    ELSE 0

BatchMax ==
    IF film_by_key = <<>> THEN 1
    ELSE Max({FetchedCount(film_by_key[i].key) : i \in 1..Len(film_by_key)})

WeightOf(key) == IF dict_has(us_weights, key) THEN dict_get(us_weights, key) ELSE 0

ScoreOf(key) ==
    IF us_weights # <<>>
    THEN <<12 * FetchedCount(key) + WeightOf(key) * BatchMax, 16 * BatchMax>>
    ELSE <<FetchedCount(key), BatchMax>>

OutputRow(key, segment, points) ==
    LET item == dict_get(film_by_key, key)
    IN [title |-> item.title, wikipedia_title |-> item.wikipedia_title,
        wikidata_id |-> item.wikidata_id, segment |-> segment,
        goat_score |-> points, pageviews_12m |-> FetchedCount(key),
        search_score |-> ScoreOf(key)]

ExpectedGoat ==
    LET Known(e) == dict_has(film_by_key, e.key)
        sel == SelectSeq(goat_selected, Known)
    IN [i \in 1..Len(sel) |-> OutputRow(sel[i].key, "goat", sel[i].val.points)]

ExpectedLikely ==
    LET Free(e) == e.key \notin Range(dict_keys(goat_selected))
        rest == SelectSeq(film_by_key, Free)
        sorted == StableSort(rest,
                     {p \in IndexPairs(rest) :
                         score_gt(ScoreOf(rest[p[1]].key), ScoreOf(rest[p[2]].key))})
        budget == IF seed_limit - goat_limit > 0 THEN seed_limit - goat_limit ELSE 0
        n == IF budget < Len(sorted) THEN budget ELSE Len(sorted)
    IN [i \in 1..n |-> OutputRow(sorted[i].key, "likely", -1)]

\* C12: the output is one function of the candidate universe, the fetch results,
\* the consensus selection and the budgets.  Whatever order the fetches
\* completed in and whatever the number of workers: a finished run has emitted
\* exactly the expected reserved rows followed by the expected remainder rows
\* (membership, segment, order and score), and whether the run ends without
\* output is decided by the same inputs.
C12_OutputIsOrderIndependent ==
    /\ pc = "done" => /\ seed_items = ExpectedGoat \o ExpectedLikely
                      /\ ~(film_by_key # <<>> /\ BatchMax = 0)
    /\ pc = "aborted" => (film_by_key # <<>> /\ BatchMax = 0)

\* a finished run with more than one worker whose counts arrived in an order
\* other than the submission order, and whose remainder has two rows of equal
\* score, the first of which was fetched after the second
C12_Witness ==
    /\ pc = "done"
    /\ max_workers > 1
    /\ \E i, j \in 1..Len(seed_items) :
          /\ i < j
          /\ seed_items[i].segment = "likely" /\ seed_items[j].segment = "likely"
          /\ seed_items[i].search_score = seed_items[j].search_score
          /\ \E a, b \in 1..Len(pv_writes) :
                /\ a > b
                /\ pv_writes[a].key = normalize_key(seed_items[i].wikipedia_title)
                /\ pv_writes[b].key = normalize_key(seed_items[j].wikipedia_title)

----------------------------------------------------------------------------
(* Consensus record updates *)

\* the record at position i is kept as it is or updated by one contribution
RecordKeptOrGrown(old, new) ==
    /\ new.key = old.key
    /\ new.val.points >= old.val.points
    /\ new.val.lists >= old.val.lists
    /\ new.val.best_rank <= old.val.best_rank
    /\ new.val # old.val => new.val.lists = old.val.lists + 1

\* C13: in every step of the accumulation no record is deleted or moved, the
\* points and list count of a record never decrease, its best_rank never
\* increases, and a step that accumulates an entry raises the list count of
\* exactly one record (an existing one, or one created with count 1) by one.
C13_RecordsOnlyGrow ==
    [][/\ Len(goat_scores') >= Len(goat_scores)
       /\ \A i \in 1..Len(goat_scores) :
             RecordKeptOrGrown(goat_scores[i], goat_scores'[i])
       /\ \A i \in (Len(goat_scores) + 1)..Len(goat_scores') :
             /\ goat_scores'[i].val.lists = 1
             /\ goat_scores'[i].val.points >= 0
       /\ entries_seen' # entries_seen =>
             LET contributed(i) ==
                     IF i <= Len(goat_scores)
                     THEN goat_scores'[i].val.lists - goat_scores[i].val.lists
                     ELSE goat_scores'[i].val.lists
             IN Cardinality({i \in 1..Len(goat_scores') : contributed(i) = 1}) = 1
                /\ \A i \in 1..Len(goat_scores') : contributed(i) \in {0, 1}]_vars

\* a record updated by a later entry of a worse rank and positive points: its
\* points are more than the later entry gave and its best_rank is the earlier one
C13_Witness ==
    \E i \in 1..Len(goat_scores) :
       \E a, b \in 1..Len(entries_seen) :
          /\ a < b
          /\ normalize_key(entries_seen[a].title) = goat_scores[i].key
          /\ normalize_key(entries_seen[b].title) = goat_scores[i].key
          /\ entries_seen[a].rank < entries_seen[b].rank
          /\ points_for(entries_seen[b].rank) > 0
          /\ goat_scores[i].val.best_rank = entries_seen[a].rank
          /\ goat_scores[i].val.lists >= 2

----------------------------------------------------------------------------
(* List count *)

EntriesOf(key) ==
    {i \in 1..Len(entries_seen) : normalize_key(entries_seen[i].title) = key}

ListsContaining(key) == {entries_seen[i].list : i \in EntriesOf(key)}

\* C14: the list count of every consensus record is the number of distinct
\* lists in which its identity appears, so it is at most the number of lists,
\* also when one list holds the identity in several entries.
C14_ListCountIsDistinctLists ==
    \A i \in 1..Len(goat_scores) :
        /\ goat_scores[i].val.lists = Cardinality(ListsContaining(goat_scores[i].key))
        /\ goat_scores[i].val.lists <= NumLists

\* what the count is: the number of accumulated entries of the identity
ListCountIsEntryCount ==
    \A i \in 1..Len(goat_scores) :
        goat_scores[i].val.lists = Cardinality(EntriesOf(goat_scores[i].key))

====
